---- MODULE Spec2Model ----
(***************************************************************************)
(* Model of the expert-report analysis pipeline (src/src/main.py and the   *)
(* four modules it calls: extract.py, ocr.py, chatgpt.py, report.py).      *)
(*                                                                         *)
(* A Python str is a sequence of one-character strings, so that join,      *)
(* strip, splitlines, lower and Path.suffix are computed character by      *)
(* character.  A call's result is a record whose field k is "return" or    *)
(* "raise"; exc names the exception type of a raise.                       *)
(***************************************************************************)
EXTENDS Integers, Sequences, FiniteSets, TLC

\* ------------------------------------------------------------------ bounds
MaxPages == 2
MaxImages == 2
MaxContentLen == 3
MaxMissing == 1

VARIABLES
    argv_input,     \* args.input: the input file's name
    prompt_file,    \* [given, exists]: --prompt given?, the file read exists?
    missing,        \* the optional packages whose import failed (module globals set to None)
    env_api_key,    \* os.environ's OPENAI_API_KEY: [set, v]
    input_file,     \* the document stored at the input path
    llm_reply,      \* what the chat-completion endpoint answers to a request
    out_file,       \* the file system at the output path
    out_initial,    \* out_file as the run found it
    pc,             \* the next stage of main, or "done" / "failed"
    stages,         \* the stages of main entered so far, in order
    calls,          \* the functions of the four modules main has invoked, in order
    prompt_text, suffix, text, images, ocr_text, combined_text, response_text,
    content_arg,    \* the content argument of each call_chatgpt invocation
    requests,       \* the chat-completion requests sent
    error,          \* the exception that ended the run, "" when none
    exit_message,   \* SystemExit's argument
    exit_code       \* the process's exit status, -1 while running

vars == <<argv_input, prompt_file, missing, env_api_key, input_file, llm_reply,
          out_file, out_initial, pc, stages, calls, prompt_text, suffix, text, images,
          ocr_text, combined_text, response_text, content_arg, requests,
          error, exit_message, exit_code>>

\* ----------------------------------------------------------------- strings
NL == <<"\n">>
Hello == <<"H", "e", "l", "l", "o">>
World == <<"W", "o", "r", "l", "d">>
DotPdf == <<".", "p", "d", "f">>
DotDocx == <<".", "d", "o", "c", "x">>

Min(S) == CHOOSE x \in S : \A y \in S : x <= y
Max(S) == CHOOSE x \in S : \A y \in S : x >= y

\* sep.join(parts)
RECURSIVE Join(_, _)
Join(parts, sep) ==
    IF parts = <<>> THEN <<>>
    ELSE IF Len(parts) = 1 THEN parts[1]
    ELSE parts[1] \o sep \o Join(Tail(parts), sep)

\* the characters str.strip() removes (those of the model's alphabet)
IsSpace(c) == c \in {" ", "\t", "\n", "\r", "\f"}

\* s.strip()
strip(s) ==
    LET keep == {i \in 1..Len(s) : ~IsSpace(s[i])}
    IN IF keep = {} THEN <<>> ELSE SubSeq(s, Min(keep), Max(keep))

\* the line boundaries of str.splitlines() (those of the model's alphabet)
IsLineBreak(c) == c \in {"\n", "\r", "\f"}

\* s.splitlines(): scan from i; a line ends at a boundary ("\r\n" is one
\* boundary); what follows the last boundary is a line only if non-empty
RECURSIVE SplitFrom(_, _, _, _)
SplitFrom(s, i, cur, acc) ==
    IF i > Len(s) THEN (IF cur = <<>> THEN acc ELSE Append(acc, cur))
    ELSE IF s[i] = "\r" /\ i < Len(s) /\ s[i + 1] = "\n"
         THEN SplitFrom(s, i + 2, <<>>, Append(acc, cur))
    ELSE IF IsLineBreak(s[i]) THEN SplitFrom(s, i + 1, <<>>, Append(acc, cur))
    ELSE SplitFrom(s, i + 1, Append(cur, s[i]), acc)

\* a splitlines that drops the empty lines
SplitlinesSkipEmpty(s) == SelectSeq(SplitFrom(s, 1, <<>>, <<>>), LAMBDA l : l # <<>>)

splitlines(s) == SplitFrom(s, 1, <<>>, <<>>)

\* str.lower() on one character
LowerChar(c) ==
    CASE c = "P" -> "p" [] c = "D" -> "d" [] c = "F" -> "f" [] c = "O" -> "o"
      [] c = "C" -> "c" [] c = "X" -> "x" [] c = "T" -> "t" [] c = "R" -> "r"
      [] OTHER -> c

lower(s) == [i \in 1..Len(s) |-> LowerChar(s[i])]

\* pathlib's PurePath.suffix of a file name: from the last dot on, unless the
\* dot is the first or the last character or there is none
PathSuffix(name) ==
    LET dots == {i \in 1..Len(name) : name[i] = "."}
    IN IF dots = {} THEN <<>>
       ELSE LET i == Max(dots)
            IN IF 1 < i /\ i < Len(name) THEN SubSeq(name, i, Len(name)) ELSE <<>>

\* ------------------------------------------------------------ call results
Return(v) == [k |-> "return", exc |-> "", v |-> v]
Raise(exc) == [k |-> "raise", exc |-> exc, v |-> <<>>]

\* ------------------------------------------------------------- main.py
\* load_prompt: the explicit file's content, else the default prompt.txt's,
\* else "" when the default file does not exist
ExplicitPrompt == <<"P">>
DefaultPrompt == <<"D">>

load_prompt(pf) ==
    IF pf.given
    THEN (IF pf.exists THEN Return(ExplicitPrompt) ELSE Raise("FileNotFoundError"))
    ELSE (IF pf.exists THEN Return(DefaultPrompt) ELSE Return(<<>>))

\* SystemExit's message: the literal prefix (one token), then the suffix.
\* The prefix is Cyrillic text, which a TLA+ string literal cannot hold: the
\* token is the sequence of the Unicode code points of its characters.
UnsupportedPrefixCodePoints ==
    <<
      1053, 1077, 1087, 1086, 1076, 1076, 1077, 1088, 1078, 1080,
      1074, 1072, 1077, 1084, 1099, 1081, 32, 1092, 1086, 1088,
      1084, 1072, 1090, 32, 1074, 1093, 1086, 1076, 1085, 1086,
      1075, 1086, 32, 1092, 1072, 1081, 1083, 1072, 58, 32
    >>

UnsupportedPrefix == <<UnsupportedPrefixCodePoints>>

\* a dispatch that hands every unknown suffix to the PDF extractor
DispatchFallbackPdf(name) ==
    LET sfx == lower(PathSuffix(name))
    IN [suffix |-> sfx,
        extractor |-> IF sfx = DotDocx THEN "extract_from_docx" ELSE "extract_from_pdf"]

\* a dispatch that compares the suffix as written
DispatchCaseSensitive(name) ==
    LET sfx == PathSuffix(name)
    IN [suffix |-> sfx,
        extractor |-> IF sfx = DotPdf THEN "extract_from_pdf"
                      ELSE IF sfx = DotDocx THEN "extract_from_docx"
                      ELSE "none"]

\* main's choice of the extractor by input_path.suffix.lower()
Dispatch(name) ==
    LET sfx == lower(PathSuffix(name))
    IN [suffix |-> sfx,
        extractor |-> IF sfx = DotPdf THEN "extract_from_pdf"
                      ELSE IF sfx = DotDocx THEN "extract_from_docx"
                      ELSE "none"]

\* a combination that appends the OCR text whatever it holds
CombineAlways(native, ocr) == native \o NL \o ocr

\* main's combined_text
Combine(native, ocr) == IF strip(ocr) # <<>> THEN native \o NL \o ocr ELSE native

\* ---------------------------------------------------------- extract.py
\* an except branch that appends nothing for the failing page
AppendPageTextDropFailed(texts, page) ==
    IF page.text.k = "ok" THEN Append(texts, page.text.v)
    ELSE IF page.text.k = "none" THEN Append(texts, <<>>)
    ELSE texts

\* one page's entry of texts: extract_text()'s string, "" when it returns
\* None or an empty string, "" when it raises
AppendPageText(texts, page) ==
    IF page.text.k = "ok" THEN Append(texts, page.text.v)
    ELSE IF page.text.k = "none" THEN Append(texts, <<>>)
    ELSE Append(texts, <<>>)

\* an image loop that gives up on the page's remaining images at a failure
RECURSIVE PageImagesStopAtFailure(_, _)
PageImagesStopAtFailure(imgs, acc) ==
    IF imgs = <<>> THEN acc
    ELSE IF Head(imgs).k = "bytes"
         THEN PageImagesStopAtFailure(Tail(imgs), Append(acc, Head(imgs).v))
         ELSE acc

\* the loop over page.images: the bytes of an image are appended; an image
\* whose extraction raises, or whose data is not bytes, is skipped
RECURSIVE PageImages(_, _)
PageImages(imgs, acc) ==
    IF imgs = <<>> THEN acc
    ELSE PageImages(Tail(imgs),
                    IF Head(imgs).k = "bytes" THEN Append(acc, Head(imgs).v) ELSE acc)

\* the loop over pdf.pages
RECURSIVE PdfPages(_, _, _)
PdfPages(pages, texts, imgs) ==
    IF pages = <<>> THEN [texts |-> texts, images |-> imgs]
    ELSE PdfPages(Tail(pages),
                  AppendPageText(texts, Head(pages)),
                  PageImages(Head(pages).images, imgs))

extract_from_pdf(miss, file) ==
    IF "pdfplumber" \in miss THEN Raise("ImportError")
    ELSE LET r == PdfPages(file.pages, <<>>, <<>>)
         IN Return([text |-> Join(r.texts, NL), images |-> r.images])

\* the loop over doc.part._rels: the blob of every relationship whose target
\* has an image content type; a relationship that raises is skipped
RECURSIVE DocxRels(_, _)
DocxRels(rels, acc) ==
    IF rels = <<>> THEN acc
    ELSE DocxRels(Tail(rels),
                  IF Head(rels).k = "image" THEN Append(acc, Head(rels).v) ELSE acc)

extract_from_docx(miss, file) ==
    IF "docx" \in miss THEN Raise("ImportError")
    ELSE Return([text |-> Join(file.paragraphs, NL),
                 images |-> DocxRels(file.rels, <<>>)])

\* -------------------------------------------------------------- ocr.py
\* Image.open on a blob: the blob "bad" is no image
ImageOpen(blob) ==
    IF blob = "bad" THEN Raise("UnidentifiedImageError")
    ELSE Return([blob |-> blob,
                 mode |-> IF blob = "B" THEN "RGBA" ELSE IF blob = "C" THEN "L" ELSE "RGB"])

\* img.convert("RGB") for a mode that is neither RGB nor L
ConvertMode(img) ==
    IF img.mode \notin {"RGB", "L"} THEN [img EXCEPT !.mode = "RGB"] ELSE img

\* pytesseract.image_to_string on a decoded image
ImageToString(img) ==
    CASE img.blob = "tessfail" -> Raise("TesseractError")
      [] img.blob = "blank" -> Return(<<>>)
      [] img.blob = "ws" -> Return(<<" ", "\n", "\f">>)
      [] img.blob = "B" -> Return(<<"B">>)
      [] img.blob = "C" -> Return(<<"C">>)
      [] OTHER -> Return(<<"?">>)

\* a loop body that appends the recognized string even when it is empty
OcrOneKeepEmpty(results, blob) ==
    LET opened == ImageOpen(blob)
    IN IF opened.k = "raise" THEN results
       ELSE LET r == ImageToString(ConvertMode(opened.v))
            IN IF r.k = "raise" THEN results ELSE Append(results, r.v)

\* one iteration of the loop over images: a non-empty recognized string is
\* appended; a failure of decoding or recognition is swallowed
OcrOne(results, blob) ==
    LET opened == ImageOpen(blob)
    IN IF opened.k = "raise" THEN results
       ELSE LET r == ImageToString(ConvertMode(opened.v))
            IN IF r.k = "raise" THEN results
               ELSE IF r.v # <<>> THEN Append(results, r.v) ELSE results

RECURSIVE OcrLoop(_, _)
OcrLoop(imgs, results) ==
    IF imgs = <<>> THEN results ELSE OcrLoop(Tail(imgs), OcrOne(results, Head(imgs)))

ocr_images(miss, imgs) ==
    IF "PIL" \in miss \/ "pytesseract" \in miss THEN Raise("ImportError")
    ELSE Return(Join(OcrLoop(imgs, <<>>), NL))

\* ---------------------------------------------------------- chatgpt.py
DefaultModel == "gpt-4"

\* `not api_key`: the variable is unset (None) or empty
NoApiKey(key) == ~key.set \/ key.v = ""

\* the request call_chatgpt builds
ChatRequest(prompt, content) ==
    [model |-> DefaultModel,
     messages |-> <<[role |-> "system", content |-> prompt],
                    [role |-> "user", content |-> content]>>]

\* a call_chatgpt that sends the request without looking at the key
call_chatgpt_no_key_check(miss, key, prompt, content, reply) ==
    IF "openai" \in miss THEN Raise("ImportError") @@ [sent |-> <<>>]
    ELSE IF reply.k = "error"
         THEN Raise("APIError") @@ [sent |-> <<ChatRequest(prompt, content)>>]
         ELSE Return(reply.v) @@ [sent |-> <<ChatRequest(prompt, content)>>]

\* call_chatgpt: sent holds the requests made to the endpoint
call_chatgpt(miss, key, prompt, content, reply) ==
    IF "openai" \in miss THEN Raise("ImportError") @@ [sent |-> <<>>]
    ELSE IF NoApiKey(key) THEN Raise("RuntimeError") @@ [sent |-> <<>>]
    ELSE IF reply.k = "error"
         THEN Raise("APIError") @@ [sent |-> <<ChatRequest(prompt, content)>>]
         ELSE Return(reply.v) @@ [sent |-> <<ChatRequest(prompt, content)>>]

\* ----------------------------------------------------------- report.py
\* the default of create_report's title parameter, as the Unicode code
\* points of its characters (Cyrillic text)
DefaultTitle ==
    <<
      1057, 1074, 1086, 1076, 1085, 1099, 1081, 32, 1086, 1090,
      1095, 1105, 1090, 32, 1086, 32, 1085, 1077, 1076, 1086,
      1089, 1090, 1072, 1090, 1082, 1072, 1093
    >>
Absent == [state |-> "absent", heading |-> <<>>, paragraphs |-> <<>>]
NoDir == [state |-> "nodir", heading |-> <<>>, paragraphs |-> <<>>]
OldFile == [state |-> "old", heading |-> <<111, 108, 100>>, paragraphs |-> <<<<"o">>>>]

\* a create_report that builds and saves the document before it looks for
\* the package
create_report_save_first(miss, content, out) ==
    LET written == [state |-> "written", heading |-> DefaultTitle,
                    paragraphs |-> splitlines(content)]
    IN IF "docx" \in miss THEN [Raise("ImportError") EXCEPT !.v = written]
       ELSE Return(written)

\* create_report: the heading, one paragraph per element of
\* content.splitlines(), then mkdir of the parent and save; v is the file
\* system at the output path afterwards (untouched by a raise)
create_report(miss, content, out) ==
    IF "docx" \in miss THEN [Raise("ImportError") EXCEPT !.v = out]
    ELSE Return([state |-> "written", heading |-> DefaultTitle,
                 paragraphs |-> splitlines(content)])

\* ------------------------------------------------------------- the inputs
SeqsUpTo(S, n) == UNION {[1..m -> S] : m \in 0..n}

\* what page.extract_text() does: raises, returns None, returns a string
TextRaises == [k |-> "raise", v |-> <<>>]
TextNone == [k |-> "none", v |-> <<>>]
TextOk(str) == [k |-> "ok", v |-> str]

\* what an entry of page.images gives: extraction raises, data that is not
\* bytes, or the bytes of a blob
ImageRaises == [k |-> "raise", v |-> ""]
ImageNotBytes == [k |-> "notbytes", v |-> ""]
ImageBytes(blob) == [k |-> "bytes", v |-> blob]

\* what an entry of doc.part._rels gives: raises, a part that is no image,
\* or an image part with its blob
RelRaises == [k |-> "raise", v |-> ""]
RelOther == [k |-> "other", v |-> ""]
RelImage(blob) == [k |-> "image", v |-> blob]

Page(t, imgs) == [text |-> t, images |-> imgs]
PdfFile(pages) == [kind |-> "pdf", pages |-> pages, paragraphs |-> <<>>, rels |-> <<>>]
DocxFile(pars, rels) == [kind |-> "docx", pages |-> <<>>, paragraphs |-> pars, rels |-> rels]
OtherFile == [kind |-> "other", pages |-> <<>>, paragraphs |-> <<>>, rels |-> <<>>]

\* file names, with the kind of document stored under each
NamedInputs ==
    {[name |-> <<"r", ".", "p", "d", "f">>, kind |-> "pdf"],
     [name |-> <<"r", ".", "P", "d", "F">>, kind |-> "pdf"],
     [name |-> <<"r", ".", "d", "o", "c", "x">>, kind |-> "docx"],
     [name |-> <<"r", ".", "D", "O", "C", "X">>, kind |-> "docx"],
     [name |-> <<"r", ".", "t", "x", "t">>, kind |-> "other"],
     [name |-> <<"r", ".", "T", "X", "T">>, kind |-> "other"],
     [name |-> <<"r">>, kind |-> "other"],
     [name |-> <<".", "p", "d", "f">>, kind |-> "other"]}

\* one name of each supported format
PlainInputs == {i \in NamedInputs : i.name \in {<<"r", ".", "p", "d", "f">>,
                                                <<"r", ".", "D", "O", "C", "X">>}}

PromptFiles == [given : BOOLEAN, exists : BOOLEAN]
DefaultPromptAbsent == [given |-> FALSE, exists |-> FALSE]

Packages == {"pdfplumber", "docx", "PIL", "pytesseract", "openai"}
MissingSets(n) == {m \in SUBSET Packages : Cardinality(m) <= n}

ApiKeys == {[set |-> FALSE, v |-> ""], [set |-> TRUE, v |-> ""], [set |-> TRUE, v |-> "sk"]}
GoodKey == [set |-> TRUE, v |-> "sk"]

OutFiles == {NoDir, Absent, OldFile}

ReplyOk(str) == [k |-> "ok", v |-> str]
ReplyError == [k |-> "error", v |-> <<>>]
Line1Line3 == <<"l", "i", "n", "e", "1", "\n", "\n", "l", "i", "n", "e", "3">>

\* the two-page PDF of the end-to-end scenario: "Hello", "World", one image
\* that fails OCR
ScenarioPdf == PdfFile(<<Page(TextOk(Hello), <<ImageBytes("bad")>>), Page(TextOk(World), <<>>)>>)

ExamplePdfs ==
    {ScenarioPdf,
     PdfFile(<<>>),
     PdfFile(<<Page(TextRaises, <<ImageRaises, ImageBytes("B")>>),
               Page(TextOk(World), <<ImageBytes("ws"), ImageNotBytes>>)>>),
     PdfFile(<<Page(TextNone, <<ImageBytes("C"), ImageBytes("tessfail")>>)>>)}

ExampleDocxs ==
    {DocxFile(<<Hello, <<>>, World>>, <<RelOther, RelImage("B"), RelImage("C")>>),
     DocxFile(<<>>, <<>>),
     DocxFile(<<Hello>>, <<RelRaises, RelImage("bad"), RelImage("blank")>>)}

ExampleReplies == {ReplyOk(Line1Line3), ReplyOk(<<>>), ReplyError}

\* the documents of the bounded runs: up to MaxPages pages and MaxImages
\* images (PDF), up to MaxPages paragraphs and MaxImages relationships (DOCX)
PageTextOutcomes == {TextRaises, TextNone, TextOk(Hello), TextOk(World)}
PdfImageOutcomes == {ImageRaises, ImageBytes("bad"), ImageBytes("B")}
RelOutcomes == {RelRaises, RelOther, RelImage("bad"), RelImage("blank"),
                RelImage("ws"), RelImage("B"), RelImage("C")}
ParagraphTexts == {Hello, World, <<>>}

RECURSIVE TotalLen(_)
TotalLen(ss) == IF ss = <<>> THEN 0 ELSE Len(Head(ss)) + TotalLen(Tail(ss))

\* the PDFs of n pages that hold up to ni images in all
PdfsOfPages(n, ni) ==
    LET lists == {f \in [1..n -> SeqsUpTo(PdfImageOutcomes, ni)] : TotalLen(f) <= ni}
    IN {PdfFile([p \in 1..n |-> Page(texts[p], imgs[p])]) :
           texts \in [1..n -> PageTextOutcomes], imgs \in lists}

\* the PDFs of up to np pages that hold up to ni images in all, grouped by
\* their number of pages
BoundedPdfs(np, ni) == [g \in 1..(np + 1) |-> PdfsOfPages(g - 1, ni)]

BoundedDocxs(np, ni) ==
    <<{DocxFile(ps, rs) : ps \in SeqsUpTo(ParagraphTexts, np), rs \in SeqsUpTo(RelOutcomes, ni)}>>

ContentChars == {"a", "\n", "\r"}
BoundedReplies(n) == {ReplyOk(c) : c \in SeqsUpTo(ContentChars, n) \cup {Line1Line3}}

\* the groups of files that may be stored under a name of the given kind
FilesOf(kind, pdfs, docxs) ==
    IF kind = "pdf" THEN pdfs ELSE IF kind = "docx" THEN docxs ELSE <<{OtherFile}>>

\* ------------------------------------------------------------------- Init
\* main after parse_args, in an environment drawn from the given sets
InitIn(inputs, prompts, missings, keys, outs, pdfs, docxs, replies) ==
    /\ \E i \in inputs :
          /\ argv_input = i.name
          /\ \E g \in DOMAIN FilesOf(i.kind, pdfs, docxs) :
                input_file \in FilesOf(i.kind, pdfs, docxs)[g]
    /\ prompt_file \in prompts
    /\ missing \in missings
    /\ env_api_key \in keys
    /\ llm_reply \in replies
    /\ out_file \in outs
    /\ out_initial = out_file
    /\ pc = "load_prompt"
    /\ stages = <<>>
    /\ calls = <<>>
    /\ prompt_text = <<>>
    /\ suffix = <<>>
    /\ text = <<>>
    /\ images = <<>>
    /\ ocr_text = <<>>
    /\ combined_text = <<>>
    /\ response_text = <<>>
    /\ content_arg = <<>>
    /\ requests = <<>>
    /\ error = ""
    /\ exit_message = <<>>
    /\ exit_code = -1

\* any environment, a few documents
Init ==
    InitIn(NamedInputs, PromptFiles, MissingSets(MaxMissing), ApiKeys, OutFiles,
           <<ExamplePdfs>>, <<ExampleDocxs>>, ExampleReplies)

\* every package present, the key set: all bounded documents
InitDocs ==
    InitIn(PlainInputs, {DefaultPromptAbsent}, {{}}, {GoodKey}, {Absent},
           BoundedPdfs(MaxPages, MaxImages), BoundedDocxs(MaxPages, MaxImages),
           {ReplyOk(Line1Line3)})

\* every package present, the key set: all bounded replies of the endpoint
InitReplies ==
    InitIn(PlainInputs, {DefaultPromptAbsent}, {{}}, {GoodKey}, {Absent, OldFile},
           <<{ScenarioPdf}>>, <<{DocxFile(<<Hello>>, <<>>)}>>, BoundedReplies(MaxContentLen))

\* ---------------------------------------------------------------- actions
environment == <<argv_input, prompt_file, missing, env_api_key, input_file,
                 llm_reply, out_initial>>

\* an uncaught exception ends the process with status 1
Fail(exc) == pc' = "failed" /\ error' = exc /\ exit_code' = 1

\* main.py:89
LoadPrompt ==
    /\ pc = "load_prompt"
    /\ stages' = Append(stages, "load_prompt")
    /\ LET r == load_prompt(prompt_file)
       IN IF r.k = "raise"
          THEN Fail(r.exc) /\ UNCHANGED prompt_text
          ELSE pc' = "select" /\ prompt_text' = r.v /\ UNCHANGED <<error, exit_code>>
    /\ UNCHANGED <<environment, out_file, calls, suffix, text, images, ocr_text,
                   combined_text, response_text, content_arg, requests, exit_message>>

\* main.py:92-98: the branch on the suffix; SystemExit(message) ends the
\* process with status 1
SelectExtractor ==
    /\ pc = "select"
    /\ stages' = Append(stages, "select")
    /\ LET d == Dispatch(argv_input)
       IN /\ suffix' = d.suffix
          /\ IF d.extractor = "none"
             THEN Fail("SystemExit") /\ exit_message' = UnsupportedPrefix \o d.suffix
             ELSE pc' = d.extractor /\ UNCHANGED <<error, exit_code, exit_message>>
    /\ UNCHANGED <<environment, out_file, calls, prompt_text, text, images, ocr_text,
                   combined_text, response_text, content_arg, requests>>

\* main.py:94
ExtractPdf ==
    /\ pc = "extract_from_pdf"
    /\ stages' = Append(stages, "extract")
    /\ calls' = Append(calls, "extract_from_pdf")
    /\ LET r == extract_from_pdf(missing, input_file)
       IN IF r.k = "raise"
          THEN Fail(r.exc) /\ UNCHANGED <<text, images>>
          ELSE /\ pc' = "recognize" /\ text' = r.v.text /\ images' = r.v.images
               /\ UNCHANGED <<error, exit_code>>
    /\ UNCHANGED <<environment, out_file, prompt_text, suffix, ocr_text,
                   combined_text, response_text, content_arg, requests, exit_message>>

\* main.py:96
ExtractDocx ==
    /\ pc = "extract_from_docx"
    /\ stages' = Append(stages, "extract")
    /\ calls' = Append(calls, "extract_from_docx")
    /\ LET r == extract_from_docx(missing, input_file)
       IN IF r.k = "raise"
          THEN Fail(r.exc) /\ UNCHANGED <<text, images>>
          ELSE /\ pc' = "recognize" /\ text' = r.v.text /\ images' = r.v.images
               /\ UNCHANGED <<error, exit_code>>
    /\ UNCHANGED <<environment, out_file, prompt_text, suffix, ocr_text,
                   combined_text, response_text, content_arg, requests, exit_message>>

\* main.py:101
Recognize ==
    /\ pc = "recognize"
    /\ stages' = Append(stages, "recognize")
    /\ calls' = Append(calls, "ocr_images")
    /\ LET r == ocr_images(missing, images)
       IN IF r.k = "raise"
          THEN Fail(r.exc) /\ UNCHANGED ocr_text
          ELSE pc' = "combine" /\ ocr_text' = r.v /\ UNCHANGED <<error, exit_code>>
    /\ UNCHANGED <<environment, out_file, prompt_text, suffix, text, images,
                   combined_text, response_text, content_arg, requests, exit_message>>

\* main.py:103-105
CombineText ==
    /\ pc = "combine"
    /\ stages' = Append(stages, "combine")
    /\ combined_text' = Combine(text, ocr_text)
    /\ pc' = "respond"
    /\ UNCHANGED <<environment, out_file, calls, prompt_text, suffix, text, images,
                   ocr_text, response_text, content_arg, requests, error,
                   exit_message, exit_code>>

\* a respond stage that calls the endpoint again after a transport failure
RespondRetry ==
    /\ pc = "respond"
    /\ stages' = Append(stages, "respond")
    /\ calls' = Append(calls, "call_chatgpt")
    /\ content_arg' = Append(content_arg, combined_text)
    /\ LET r == call_chatgpt(missing, env_api_key, prompt_text, combined_text, llm_reply)
       IN /\ requests' = requests \o r.sent
          /\ IF r.k = "raise" /\ r.exc = "APIError" /\ Len(requests) < 2
             THEN UNCHANGED <<pc, error, exit_code, response_text>>
             ELSE IF r.k = "raise"
             THEN Fail(r.exc) /\ UNCHANGED response_text
             ELSE pc' = "report" /\ response_text' = r.v /\ UNCHANGED <<error, exit_code>>
    /\ UNCHANGED <<environment, out_file, prompt_text, suffix, text, images, ocr_text,
                   combined_text, exit_message>>

\* main.py:108
Respond ==
    /\ pc = "respond"
    /\ stages' = Append(stages, "respond")
    /\ calls' = Append(calls, "call_chatgpt")
    /\ content_arg' = Append(content_arg, combined_text)
    /\ LET r == call_chatgpt(missing, env_api_key, prompt_text, combined_text, llm_reply)
       IN /\ requests' = requests \o r.sent
          /\ IF r.k = "raise"
             THEN Fail(r.exc) /\ UNCHANGED response_text
             ELSE pc' = "report" /\ response_text' = r.v /\ UNCHANGED <<error, exit_code>>
    /\ UNCHANGED <<environment, out_file, prompt_text, suffix, text, images, ocr_text,
                   combined_text, exit_message>>

\* main.py:111
Report ==
    /\ pc = "report"
    /\ stages' = Append(stages, "report")
    /\ calls' = Append(calls, "create_report")
    /\ LET r == create_report(missing, response_text, out_file)
       IN /\ out_file' = r.v
          /\ IF r.k = "raise"
             THEN Fail(r.exc)
             ELSE pc' = "exit" /\ UNCHANGED <<error, exit_code>>
    /\ UNCHANGED <<environment, prompt_text, suffix, text, images, ocr_text,
                   combined_text, response_text, content_arg, requests, exit_message>>

\* main returns: the process ends with status 0
Exit ==
    /\ pc = "exit"
    /\ stages' = Append(stages, "exit")
    /\ pc' = "done"
    /\ exit_code' = 0
    /\ UNCHANGED <<environment, out_file, calls, prompt_text, suffix, text, images,
                   ocr_text, combined_text, response_text, content_arg, requests,
                   error, exit_message>>

Next ==
    \/ LoadPrompt
    \/ SelectExtractor
    \/ ExtractPdf
    \/ ExtractDocx
    \/ Recognize
    \/ CombineText
    \/ Respond
    \/ Report
    \/ Exit

Spec == Init /\ [][Next]_vars
SpecDocs == InitDocs /\ [][Next]_vars
SpecReplies == InitReplies /\ [][Next]_vars

\* ------------------------------------------------------- claim vocabulary
StageOrder == <<"load_prompt", "select", "extract", "recognize", "combine",
                "respond", "report", "exit">>
IsPrefix(s, t) == Len(s) <= Len(t) /\ SubSeq(t, 1, Len(s)) = s
Range(s) == {s[i] : i \in DOMAIN s}
Terminated == pc \in {"done", "failed"}

\* the spellings of a lower-case letter
Spellings(c) ==
    CASE c = "p" -> {"p", "P"} [] c = "d" -> {"d", "D"} [] c = "f" -> {"f", "F"}
      [] c = "o" -> {"o", "O"} [] c = "c" -> {"c", "C"} [] c = "x" -> {"x", "X"}
      [] c = "t" -> {"t", "T"} [] c = "r" -> {"r", "R"} [] OTHER -> {c}
\* s is the lower-case string t in some letter case
IsSpelling(s, t) == Len(s) = Len(t) /\ \A i \in 1..Len(t) : s[i] \in Spellings(t[i])
HasPdfSuffix == IsSpelling(PathSuffix(argv_input), DotPdf)
HasDocxSuffix == IsSpelling(PathSuffix(argv_input), DotDocx)
UnsupportedSuffix == ~HasPdfSuffix /\ ~HasDocxSuffix
PromptUnreadable == prompt_file.given /\ ~prompt_file.exists
ExtractorCalls == SelectSeq(calls, LAMBDA f : f \in {"extract_from_pdf", "extract_from_docx"})

IsLowerCase(c) == c \notin {"P", "D", "F", "O", "C", "X", "T", "R"}

\* the message is the prefix followed by the input's suffix in lower case
MessageNamesSuffix ==
    LET sfx == PathSuffix(argv_input)
    IN /\ Len(exit_message) = 1 + Len(sfx)
       /\ exit_message[1] = UnsupportedPrefix[1]
       /\ \A i \in 1..Len(sfx) :
             IsLowerCase(exit_message[i + 1]) /\ sfx[i] \in Spellings(exit_message[i + 1])

\* an unsupported suffix: nothing is invoked and the run never passes the dispatch
UnsupportedDoesNothing ==
    UnsupportedSuffix =>
        /\ calls = <<>>
        /\ requests = <<>>
        /\ out_file = out_initial
        /\ pc \in {"load_prompt", "select", "failed"}
        /\ (pc # "failed" => ENABLED Next)
        /\ (pc = "failed" => exit_code # 0)

\* C1 as stated: for an unsupported suffix the run ends with a non-zero exit,
\* by the SystemExit whose message names the suffix, and no extractor,
\* ocr_images, call_chatgpt or create_report is invoked.
C1_AsStated ==
    /\ UnsupportedDoesNothing
    /\ (UnsupportedSuffix /\ pc = "failed") => (error = "SystemExit" /\ MessageNamesSuffix)

\* C1, amended: for an unsupported suffix the run ends with a non-zero exit
\* and nothing is invoked; it ends by the SystemExit naming the suffix unless
\* the file given by --prompt cannot be read, and then by load_prompt's
\* FileNotFoundError, raised before the dispatch.
C1_UnsupportedSuffixExits ==
    /\ UnsupportedDoesNothing
    /\ (UnsupportedSuffix /\ pc = "failed") =>
          IF PromptUnreadable
          THEN error = "FileNotFoundError" /\ exit_message = <<>>
          ELSE error = "SystemExit" /\ MessageNamesSuffix

C1_Witness ==
    /\ argv_input = <<"r", ".", "T", "X", "T">>
    /\ pc = "failed"
    /\ error = "SystemExit"
    /\ exit_message = UnsupportedPrefix \o <<".", "t", "x", "t">>
    /\ exit_code = 1

\* the package the chosen extractor needs
ExtractorPackage == IF HasPdfSuffix THEN "pdfplumber" ELSE "docx"

\* C2: create_report is invoked only after extraction, OCR and the LLM call
\* have all returned, and a run that ends with an error (ImportError, missing
\* key, unsupported format, transport error) leaves the output path as it
\* found it.
C2_NoPartialReport ==
    /\ "create_report" \in Range(calls) =>
          /\ Len(ExtractorCalls) = 1
          /\ calls = ExtractorCalls \o <<"ocr_images", "call_chatgpt", "create_report">>
          /\ {ExtractorPackage, "PIL", "pytesseract", "openai"} \cap missing = {}
          /\ ~NoApiKey(env_api_key)
          /\ Len(requests) = 1
          /\ llm_reply.k = "ok"
          /\ response_text = llm_reply.v
    /\ out_file # out_initial => ("create_report" \in Range(calls) /\ error = "")
    /\ error # "" => (pc = "failed" /\ exit_code = 1 /\ out_file = out_initial)

C2_Witness ==
    /\ pc = "failed"
    /\ error = "APIError"
    /\ Len(requests) = 1
    /\ out_initial = NoDir
    /\ out_file = NoDir

\* C3 as stated: with OPENAI_API_KEY unset or empty, every call_chatgpt
\* invocation raises RuntimeError without sending a request, and no output
\* file is created.
C3_AsStated ==
    (NoApiKey(env_api_key) /\ "call_chatgpt" \in Range(calls)) =>
        /\ pc = "failed"
        /\ error = "RuntimeError"
        /\ requests = <<>>
        /\ "report" \notin Range(stages)
        /\ out_file = out_initial

\* C3, amended: with OPENAI_API_KEY unset or empty, every call_chatgpt
\* invocation raises at the call, without sending a request, and no output
\* file is created; the error is RuntimeError when the openai package is
\* importable and ImportError when it is not.
C3_MissingKeyRaises ==
    (NoApiKey(env_api_key) /\ "call_chatgpt" \in Range(calls)) =>
        /\ pc = "failed"
        /\ error = (IF "openai" \in missing THEN "ImportError" ELSE "RuntimeError")
        /\ requests = <<>>
        /\ "report" \notin Range(stages)
        /\ out_file = out_initial

C3_Witness ==
    /\ ~env_api_key.set
    /\ "call_chatgpt" \in Range(calls)
    /\ error = "RuntimeError"
    /\ requests = <<>>
    /\ pc = "failed"

OnlyWhitespace(s) == \A i \in 1..Len(s) : IsSpace(s[i])

\* C4: the content passed to call_chatgpt is the native text when the OCR
\* text is empty or whitespace-only, and native text, newline, OCR text
\* otherwise; the scenario PDF yields "Hello\nWorld".
C4_CombinedContent ==
    content_arg # <<>> =>
        /\ Len(content_arg) = 1
        /\ content_arg[1] = (IF OnlyWhitespace(ocr_text) THEN text
                             ELSE text \o <<"\n">> \o ocr_text)
        /\ SubSeq(content_arg[1], 1, Len(text)) = text
        /\ (input_file = ScenarioPdf => content_arg[1] = Hello \o <<"\n">> \o World)
        /\ \A r \in Range(requests) : r.messages[2].content = content_arg[1]

C4_Witness ==
    /\ ocr_text # <<>>
    /\ OnlyWhitespace(ocr_text)
    /\ text = Hello
    /\ content_arg = <<Hello>>

\* the text a page contributes
PageTextOrEmpty(page) == IF page.text.k = "ok" THEN page.text.v ELSE <<>>
NewlinesIn(s) == Cardinality({i \in 1..Len(s) : s[i] = "\n"})
PdfExtracted == input_file.kind = "pdf" /\ "extract" \in Range(stages) /\ pc # "failed"

\* C5: the text of a PDF of N pages is the newline-join of N page texts in
\* page order, a page whose extraction raises or returns nothing giving "".
C5_PdfTextPerPage ==
    PdfExtracted =>
        LET pages == input_file.pages
            N == Len(pages)
        IN /\ text = Join([i \in 1..N |-> PageTextOrEmpty(pages[i])], <<"\n">>)
           /\ (N >= 1 => NewlinesIn(text) = N - 1)
           /\ Len(text) = (IF N = 0 THEN 0 ELSE N - 1)
                          + Cardinality({i \in 1..N : pages[i].text = TextOk(Hello)}) * Len(Hello)
                          + Cardinality({i \in 1..N : pages[i].text = TextOk(World)}) * Len(World)

C5_Witness ==
    /\ PdfExtracted
    /\ Len(input_file.pages) = 2
    /\ input_file.pages[1].text = TextRaises
    /\ input_file.pages[2].text = TextOk(World)
    /\ text = <<"\n">> \o World

\* what recognition gives for a blob: "" when decoding or recognition fails
RecognizedOrEmpty(blob) ==
    IF ImageOpen(blob).k = "raise" THEN <<>>
    ELSE LET r == ImageToString(ConvertMode(ImageOpen(blob).v))
         IN IF r.k = "raise" THEN <<>> ELSE r.v
Recognized == "recognize" \in Range(stages)

\* C6: ocr_images returns the newline-join, in input order, of the non-empty
\* recognized strings of the images that decode and recognize; no exception
\* escapes; no image, or only failing images, give "".
C6_OcrJoin ==
    Recognized =>
        /\ pc # "failed"
        /\ ocr_text = Join(SelectSeq([i \in 1..Len(images) |-> RecognizedOrEmpty(images[i])],
                                     LAMBDA str : str # <<>>), <<"\n">>)
        /\ (\A i \in 1..Len(images) : RecognizedOrEmpty(images[i]) = <<>>) => ocr_text = <<>>

C6_Witness ==
    /\ Recognized
    /\ images = <<"bad", "B">>
    /\ ocr_text = <<"B">>

\* the line a character of the content belongs to: one more than the number
\* of line boundaries before it ("\r\n" is one boundary, counted at its "\r")
BoundaryAt(s, i) == IsLineBreak(s[i]) /\ ~(s[i] = "\n" /\ i > 1 /\ s[i - 1] = "\r")
LineOf(s, i) == 1 + Cardinality({j \in 1..(i - 1) : BoundaryAt(s, j)})
NumLines(s) ==
    Cardinality({j \in 1..Len(s) : BoundaryAt(s, j)})
    + (IF s # <<>> /\ ~IsLineBreak(s[Len(s)]) THEN 1 ELSE 0)
RECURSIVE CharsOfLine(_, _, _)
CharsOfLine(s, k, i) ==
    IF i > Len(s) THEN <<>>
    ELSE (IF ~IsLineBreak(s[i]) /\ LineOf(s, i) = k THEN <<s[i]>> ELSE <<>>)
         \o CharsOfLine(s, k, i + 1)

\* C7: the document holds the heading, then one paragraph per line of the
\* content, in order, an empty line giving an empty paragraph.
C7_ParagraphPerLine ==
    out_file.state = "written" =>
        /\ out_file.heading = DefaultTitle
        /\ Len(out_file.paragraphs) = NumLines(response_text)
        /\ \A k \in 1..Len(out_file.paragraphs) :
              out_file.paragraphs[k] = CharsOfLine(response_text, k, 1)
        /\ (response_text = Line1Line3 =>
              out_file.paragraphs = <<SubSeq(Line1Line3, 1, 5), <<>>, SubSeq(Line1Line3, 8, 12)>>)

C7_Witness ==
    /\ out_file.state = "written"
    /\ response_text = Line1Line3
    /\ Len(out_file.paragraphs) = 3
    /\ out_file.paragraphs[2] = <<>>

\* C8: the stages entered are a prefix of the one linear path; no stage, and
\* no call, happens twice; the LLM call is not retried.
C8_LinearPath ==
    /\ IsPrefix(stages, StageOrder)
    /\ \A i, j \in DOMAIN calls : calls[i] = calls[j] => i = j
    /\ Len(requests) <= 1
    /\ Len(content_arg) <= 1
    /\ (Terminated => ~ENABLED Next)

C8_Witness ==
    /\ pc = "failed"
    /\ error = "APIError"
    /\ stages = SubSeq(StageOrder, 1, 6)
    /\ Len(requests) = 1

\* C9: a suffix that is ".pdf" in any letter case gets the PDF extractor, one
\* that is ".docx" in any letter case the DOCX extractor; never both, never
\* one twice.
C9_ExtractorBySuffix ==
    /\ Len(ExtractorCalls) <= 1
    /\ (HasPdfSuffix /\ "extract" \in Range(stages)) => ExtractorCalls = <<"extract_from_pdf">>
    /\ (HasDocxSuffix /\ "extract" \in Range(stages)) => ExtractorCalls = <<"extract_from_docx">>
    /\ ExtractorCalls # <<>> => (HasPdfSuffix \/ HasDocxSuffix)
    /\ (HasPdfSuffix \/ HasDocxSuffix) =>
          /\ error # "SystemExit"
          /\ (pc = "failed" /\ "extract" \notin Range(stages)) => PromptUnreadable

C9_Witness ==
    /\ argv_input = <<"r", ".", "P", "d", "F">>
    /\ calls = <<"extract_from_pdf">>
    /\ pc = "recognize"

\* the blobs that do extract, in document order
RECURSIVE Flatten(_)
Flatten(ss) == IF ss = <<>> THEN <<>> ELSE Head(ss) \o Flatten(Tail(ss))
ExtractableBlobs(file) ==
    LET entries == IF file.kind = "pdf"
                   THEN SelectSeq(Flatten([i \in 1..Len(file.pages) |-> file.pages[i].images]),
                                  LAMBDA e : e.k = "bytes")
                   ELSE SelectSeq(file.rels, LAMBDA e : e.k = "image")
    IN [i \in 1..Len(entries) |-> entries[i].v]

\* C10: failing page texts, failing image or relationship extractions and
\* failing OCR items never end the run: every other item is processed, the
\* images that extract are kept in document order, and the run goes on to
\* the respond stage.
C10_PartialFailuresAbsorbed ==
    /\ error = ""
    /\ pc # "failed"
    /\ (pc \in {"extract_from_pdf", "extract_from_docx", "recognize", "combine"} => ENABLED Next)
    /\ "extract" \in Range(stages) =>
          /\ images = ExtractableBlobs(input_file)
          /\ (input_file.kind = "pdf" /\ input_file.pages # <<>>) =>
                NewlinesIn(text) = Len(input_file.pages) - 1
          /\ (input_file.kind = "docx" /\ input_file.paragraphs # <<>>) =>
                NewlinesIn(text) = Len(input_file.paragraphs) - 1
    /\ Recognized =>
          Len(SelectSeq(ocr_text, LAMBDA c : c \in {"B", "C"}))
             = Cardinality({i \in 1..Len(images) : images[i] \in {"B", "C"}})

C10_Witness ==
    /\ pc = "respond"
    /\ input_file.kind = "pdf"
    /\ \E i \in 1..Len(input_file.pages) : input_file.pages[i].text = TextRaises
    /\ \E i \in 1..Len(input_file.pages) : ImageRaises \in Range(input_file.pages[i].images)
    /\ images = <<"bad">>
    /\ ocr_text = <<>>
====
